---- MODULE Spec2Model ----
(***************************************************************************)
(* Model of mopidy_alsamixer/mixer.py: the AlsaMixer actor (Controller),   *)
(* the AlsaMixerObserver actor (Observer), the ALSA mixer device they      *)
(* share, and the pykka actor machinery (inboxes, futures, stop) that the  *)
(* two classes run on.                                                     *)
(***************************************************************************)
EXTENDS Integers, Sequences, FiniteSets, TLC

(***************************************************************************)
(* Bounds of the model.                                                    *)
(***************************************************************************)
\* most channels a control reports (getvolume()/getmute() list length)
MaxChannels == 2

(***************************************************************************)
(* Values.  Python's None and a present value are kept apart by shape:     *)
(* None is the empty tuple, a value v is <<v>>.                            *)
(***************************************************************************)
None == << >>

Some(v) == <<v>>

\* mixer-native percentages the device is driven through
MixerLevels == {0, 50, 100}

\* host percentages the host asks for
HostLevels == {0, 50, 100}

\* (min_volume, max_volume, volume_scale) of config["alsamixer"]
Calibrations ==
    { [min |-> 0, max |-> 100, scale |-> "linear"],
      [min |-> 0, max |-> 100, scale |-> "cubic"],
      [min |-> 0, max |-> 100, scale |-> "log"] }

\* the device and the calls of the specification of the two actors' life
\* cycle, whose claims are about the order of steps and not about values
LifeLevels == {0, 100}

LifeCalibrations == {[min |-> 0, max |-> 100, scale |-> "linear"]}

\* the configurations the two conversions are evaluated under: every scale
\* with the default range and with ranges that cut the mixer's range at the
\* bottom, at the top and at both ends
MapScales == {"linear", "cubic", "log"}

MapRanges == {<<0, 100>>, <<0, 50>>, <<50, 100>>, <<20, 80>>, <<0, 98>>, <<40, 60>>}

MapCalibrations ==
    {[min |-> r[1], max |-> r[2], scale |-> s] : r \in MapRanges, s \in MapScales}

\* percentages: the arguments of the two conversions
Percent == 0..100

Callers == {"host", "obs"}

VARIABLES
    \* configuration (AlsaMixer.__init__)
    min_volume, max_volume, volume_scale,
    \* the ALSA control: whether alsaaudio.Mixer(...) opens, and its channels
    devAvail, devVol, devMute,
    \* AlsaMixer fields
    last_volume, last_mute, observer_pipe,
    \* AlsaMixer actor: position of its thread, actor_stopped, inbox
    ctlPc, ctlAlive, ctlInbox,
    \* executions of trigger_events_for_changed_values, one per caller
    rec,
    \* AlsaMixerObserver: position of its thread, its inbox (pending
    \* _ActorStop), the reply of the future it waits on, its _wake_fd
    obsPc, obsStopAsked, obsReply, wake_fd,
    \* the pipe, the Mixer object the Observer took its descriptors from,
    \* and the epoll object of the current _listen
    pipeByte, handleOpen, handleEvent, devReg, wakeReady, devReady,
    \* what the host last got back from a call: [op, arg, val]
    ret,
    \* what the host was last notified of
    notifiedVolume, notifiedMute,
    \* bookkeeping for the properties
    stopRequested, stopAt, quiet, unseen

vars == << min_volume, max_volume, volume_scale, devAvail, devVol, devMute,
           last_volume, last_mute, observer_pipe, ctlPc, ctlAlive, ctlInbox,
           rec, obsPc, obsStopAsked, obsReply, wake_fd, pipeByte, handleOpen,
           handleEvent, devReg, wakeReady, devReady, ret, notifiedVolume,
           notifiedMute, stopRequested, stopAt, quiet, unseen >>

cfgVars == << min_volume, max_volume, volume_scale >>

devVars == << devAvail, devVol, devMute >>

ctlFields == << last_volume, last_mute, observer_pipe >>

ctlActor == << ctlPc, ctlAlive, ctlInbox >>

obsVars == << obsPc, obsStopAsked, obsReply, wake_fd >>

handleVars == << handleOpen, handleEvent >>

epollVars == << devReg, wakeReady, devReady >>

noteVars == << notifiedVolume, notifiedMute >>

stopVars == << stopRequested, stopAt >>

(***************************************************************************)
(* Volume mapping (AlsaMixer.mixer_volume_to_volume,                       *)
(* AlsaMixer.volume_to_mixer_volume).                                      *)
(***************************************************************************)
\* Python's int(): truncation toward zero of the quotient n / d, d > 0
Trunc(n, d) == IF n >= 0 THEN n \div d ELSE -((-n) \div d)

\* floor(10^(v/50) * 10^5), v = 0..100: math.pow(10, volume / 50.0)
Pow10Table ==
    << 100000, 104712, 109647, 114815, 120226, 125892, 131825, 138038,
       144543, 151356, 158489, 165958, 173780, 181970, 190546, 199526,
       208929, 218776, 229086, 239883, 251188, 263026, 275422, 288403,
       301995, 316227, 331131, 346736, 363078, 380189, 398107, 416869,
       436515, 457088, 478630, 501187, 524807, 549540, 575439, 602559,
       630957, 660693, 691830, 724435, 758577, 794328, 831763, 870963,
       912010, 954992, 1000000, 1047128, 1096478, 1148153, 1202264,
       1258925, 1318256, 1380384, 1445439, 1513561, 1584893, 1659586,
       1737800, 1819700, 1905460, 1995262, 2089296, 2187761, 2290867,
       2398832, 2511886, 2630267, 2754228, 2884031, 3019951, 3162277,
       3311311, 3467368, 3630780, 3801893, 3981071, 4168693, 4365158,
       4570881, 4786300, 5011872, 5248074, 5495408, 5754399, 6025595,
       6309573, 6606934, 6918309, 7244359, 7585775, 7943282, 8317637,
       8709635, 9120108, 9549925, 10000000 >>

\* the largest member of a non-empty set of integers
Max(S) == CHOOSE m \in S : \A n \in S : n <= m

\* int(pow(x, 1 / 3.0) * 100.0) for x = n / 10^6 >= 0: the largest m with
\* m^3 <= n (GstAudio convert_volume(LINEAR, CUBIC, x))
CubeRoot(n) == Max({m \in 0..100 : m * m * m <= n})

\* 10^(m/50) * 10^5 <= r / q for integers r, q > 0 (the table holds the
\* floor, which is the value itself only where m/50 is an integer)
PowLe(m, r, q) ==
    IF m % 50 = 0 THEN Pow10Table[m + 1] * q <= r ELSE Pow10Table[m + 1] * q < r

\* int(50 * math.log10(x)) for x = X / 100 with 0 < X <= 10000
Log10Times50(X) ==
    IF X >= 100
    THEN Max({m \in 0..100 : PowLe(m, X * 1000, 1)})
    ELSE -Max({k \in 0..100 : PowLe(k, 10000000, X)})

\* <<mixer_volume, min_volume, max_volume>>, over MapRanges, for which the
\* cubic curve's result in double arithmetic, ((x * x * x) * 100.0 -
\* min_volume) * 100.0 / (max_volume - min_volume) with x = mixer_volume /
\* 100.0, falls just short in magnitude of the integer that the quotient is
\* in exact arithmetic, so that int() gives the integer next to it toward
\* zero.  Everywhere else over MapRanges the double and the exact quotient
\* have the same integer part.
CubicFallsShort == {<<70, 0, 98>>, <<60, 40, 60>>}

\* the integer next to n toward zero
TowardZero(n) == IF n > 0 THEN n - 1 ELSE IF n < 0 THEN n + 1 ELSE 0

\* mixer_volume_to_volume with the range applied upside down
mixer_volume_to_volume_inverted(mixer_volume) ==
    Trunc((max_volume - mixer_volume) * 100, max_volume - min_volume)

\* AlsaMixer.mixer_volume_to_volume: the host percentage of a mixer
\* percentage.  The curve is applied first, then the calibration, then int().
mixer_volume_to_volume(mixer_volume) ==
    CASE volume_scale = "cubic" ->
           LET exact == Trunc((mixer_volume * mixer_volume * mixer_volume
                                 - min_volume * 10000) * 100,
                              (max_volume - min_volume) * 10000)
           IN  IF <<mixer_volume, min_volume, max_volume>> \in CubicFallsShort
               THEN TowardZero(exact) ELSE exact
      [] volume_scale = "log" ->
           Trunc(Pow10Table[mixer_volume + 1] - min_volume * 100000,
                 (max_volume - min_volume) * 1000)
      [] OTHER ->
           Trunc((mixer_volume - min_volume) * 100, max_volume - min_volume)

\* AlsaMixer.volume_to_mixer_volume: [raised, val].  The calibration is
\* applied first (X / 100 is the calibrated value), then the curve, then
\* int(); math.log10 raises ValueError at x <= 0 and int() raises it for the
\* NaN that pow gives a negative x.
volume_to_mixer_volume(volume) ==
    LET X == 100 * min_volume + volume * (max_volume - min_volume)
    IN  CASE volume_scale = "cubic" ->
               IF X < 0 THEN [raised |-> TRUE, val |-> 0]
                        ELSE [raised |-> FALSE, val |-> CubeRoot(100 * X)]
          [] volume_scale = "log" ->
               IF X <= 0 THEN [raised |-> TRUE, val |-> 0]
                         ELSE [raised |-> FALSE, val |-> Log10Times50(X)]
          [] OTHER -> [raised |-> FALSE, val |-> Trunc(X, 100)]

(***************************************************************************)
(* The Controller's operations on the device, as the values they return    *)
(* and the writes they make.  Every one opens a fresh alsaaudio.Mixer      *)
(* (AlsaMixer._mixer), which raises ALSAAudioError when the control is     *)
(* not there.                                                              *)
(***************************************************************************)
Channels(s) == 1..Len(s)

\* get_volume without the comparison of the channels
get_volume_first_channel ==
    IF ~devAvail THEN None
    ELSE IF Len(devVol) = 0 THEN None
    ELSE Some(mixer_volume_to_volume(devVol[1]))

\* AlsaMixer.get_volume
get_volume ==
    IF ~devAvail THEN None
    ELSE IF Len(devVol) = 0 THEN None
    ELSE IF Cardinality({i \in Channels(devVol) : devVol[i] = devVol[1]}) = Len(devVol)
         THEN Some(mixer_volume_to_volume(devVol[1]))
         ELSE None

\* get_mute with any(...) where all(...) belongs
get_mute_any ==
    IF ~devAvail THEN None
    ELSE IF \E i \in Channels(devMute) : devMute[i] THEN Some(TRUE)
    ELSE Some(FALSE)

\* get_mute that takes an empty list of channels for indeterminate
get_mute_nonempty ==
    IF ~devAvail THEN None
    ELSE IF Len(devMute) = 0 THEN None
    ELSE IF \A i \in Channels(devMute) : devMute[i] THEN Some(TRUE)
    ELSE IF ~(\E i \in Channels(devMute) : devMute[i]) THEN Some(FALSE)
    ELSE None

\* AlsaMixer.get_mute: all(...) and any(...) of the channels' flags
get_mute ==
    IF ~devAvail THEN None
    ELSE IF \A i \in Channels(devMute) : devMute[i] THEN Some(TRUE)
    ELSE IF ~(\E i \in Channels(devMute) : devMute[i]) THEN Some(FALSE)
    ELSE None

\* set_volume without the except clause
set_volume_uncaught(volume) ==
    IF ~devAvail
    THEN [exc |-> "ALSAAudioError", val |-> FALSE, vol |-> devVol]
    ELSE LET m == volume_to_mixer_volume(volume)
         IN  IF m.raised THEN [exc |-> "ValueError", val |-> FALSE, vol |-> devVol]
             ELSE IF m.val \notin 0..100
                  THEN [exc |-> "ALSAAudioError", val |-> FALSE, vol |-> devVol]
             ELSE [exc |-> "", val |-> TRUE,
                   vol |-> [i \in Channels(devVol) |-> m.val]]

\* AlsaMixer.set_volume: [exc, val, vol], vol the channels afterwards.
\* self._mixer is evaluated before the argument, so an absent device wins
\* over a conversion that raises; setvolume refuses a value outside 0..100
\* with ALSAAudioError and otherwise sets every channel.
set_volume(volume) ==
    IF ~devAvail
    THEN [exc |-> "", val |-> FALSE, vol |-> devVol]
    ELSE LET m == volume_to_mixer_volume(volume)
         IN  IF m.raised THEN [exc |-> "ValueError", val |-> FALSE, vol |-> devVol]
             ELSE IF m.val \notin 0..100 THEN [exc |-> "", val |-> FALSE, vol |-> devVol]
             ELSE [exc |-> "", val |-> TRUE,
                   vol |-> [i \in Channels(devVol) |-> m.val]]

\* AlsaMixer.set_mute: [exc, val, mute]; setmute(int(mute)) sets every channel
set_mute(mute) ==
    IF ~devAvail
    THEN [exc |-> "", val |-> FALSE, mute |-> devMute]
    ELSE [exc |-> "", val |-> TRUE, mute |-> [i \in Channels(devMute) |-> mute]]

(***************************************************************************)
(* Initial state: the state after AlsaMixer.__init__ (the control was      *)
(* found, so the device is present), before the actor's thread has run     *)
(* on_start.                                                               *)
(***************************************************************************)
\* one execution of trigger_events_for_changed_values that is not running
NoRec ==
    [ pc |-> "none", old_volume |-> None, old_mute |-> None,
      pre_volume |-> None, pre_mute |-> None,
      read_volume |-> None, read_mute |-> None,
      ev_volume |-> << >>, ev_mute |-> << >>,
      clean |-> FALSE, second |-> FALSE ]

\* the host has no call outstanding
NoRet == [op |-> "none", arg |-> 0, val |-> None, exc |-> "", done |-> FALSE]

\* the state after construction with the given configurations and device
\* states; `started` is the state right after AlsaMixer.on_start has run
\* and before the Observer's thread has taken a step
Boot(calibrations, counts, levels, started) ==
    /\ \E c \in calibrations :
          /\ min_volume = c.min
          /\ max_volume = c.max
          /\ volume_scale = c.scale
    /\ devAvail = TRUE
    /\ \E n \in counts :
          /\ devVol \in [1..n -> levels]
          /\ devMute \in [1..n -> BOOLEAN]
    /\ last_volume = None
    /\ last_mute = None
    /\ observer_pipe = IF started THEN "open" ELSE "none"
    /\ ctlPc = IF started THEN "loop" ELSE "on_start"
    /\ ctlAlive = TRUE
    /\ ctlInbox = << >>
    /\ rec = [c \in Callers |-> NoRec]
    /\ obsPc = IF started THEN "listen" ELSE "none"
    /\ obsStopAsked = FALSE
    /\ obsReply = "none"
    /\ wake_fd = IF started THEN "open" ELSE "none"
    /\ pipeByte = FALSE
    /\ handleOpen = FALSE
    /\ handleEvent = FALSE
    /\ devReg = FALSE
    /\ wakeReady = FALSE
    /\ devReady = "none"
    /\ ret = NoRet
    /\ notifiedVolume = None
    /\ notifiedMute = None
    /\ stopRequested = FALSE
    /\ stopAt = "none"
    /\ quiet = FALSE
    /\ unseen = FALSE

(***************************************************************************)
(* Shared pieces of the actions.                                           *)
(***************************************************************************)
\* the Observer holds an epoll object: it is inside the loop of _listen
ObsRunning == obsPc \in {"poll", "alive_check", "call_parent", "wait_rec"}

\* the Observer is blocked on a future of the Controller
ObsAwaitsReply == obsPc \in {"wait_mixer", "wait_rec"} /\ obsReply = "none"

\* handlers entered while another one runs
ActorReentrant == TRUE

\* the Controller's thread is between two messages: pykka's actor loop takes
\* the next envelope only when the handler of the last one has returned
ActorIdle == \A c \in Callers : rec[c].pc = "none"

\* a comparison that takes None for "nothing to report"
ChangedToValue(old, new) == old # new /\ new # None

\* a comparison that reports an indeterminate reading every time
ChangedOrUnknown(old, new) == old # new \/ new = None

\* a comparison that takes a first reading for nothing new
ChangedFromValue(old, new) == old # new /\ old # None

\* Python's old != new on None, ints and bools
Changed(old, new) == old # new

\* the control's value was written (by this component or by any other
\* process): ALSA queues an event on every open handle, which makes the
\* handle's descriptors readable, an edge for an epoll set that holds them
DeviceChanged ==
    /\ handleEvent' = handleOpen
    /\ devReady' = IF devReg /\ devReady = "none" THEN "in" ELSE devReady
    /\ quiet' = FALSE
    /\ unseen' = (unseen \/ (ObsRunning /\ ~stopRequested))

\* every running reconcile has seen the device change under it
Dirtied == [c \in Callers |-> [rec[c] EXCEPT !.clean = FALSE]]

\* the epoll object of _listen goes away with the frame that held it
EpollDropped ==
    /\ devReg' = FALSE
    /\ wakeReady' = FALSE
    /\ devReady' = "none"

(***************************************************************************)
(* The host: one calling context that asks through the actor proxy and     *)
(* waits for the reply, and a request to stop the actor.                   *)
(***************************************************************************)
HostCalls ==
    {[op |-> "get_volume", arg |-> 0], [op |-> "get_mute", arg |-> 0],
     [op |-> "reconcile", arg |-> 0]}
    \cup {[op |-> "set_volume", arg |-> v] : v \in HostLevels}
    \cup {[op |-> "set_mute", arg |-> b] : b \in {0, 1}}

LifeCalls ==
    {[op |-> "reconcile", arg |-> 0], [op |-> "get_volume", arg |-> 0],
     [op |-> "get_mute", arg |-> 0]}
    \cup {[op |-> "set_volume", arg |-> v] : v \in LifeLevels}
    \cup {[op |-> "set_mute", arg |-> b] : b \in {0, 1}}

\* the two conversions, public methods as well, on every percentage
MapCalls ==
    {[op |-> "volume_to_mixer_volume", arg |-> v] : v \in Percent}
    \cup {[op |-> "mixer_volume_to_volume", arg |-> v] : v \in Percent}

\* proxy.<op>(arg): ActorRef.ask puts the envelope in the inbox of a live actor
HostCall(call) ==
    /\ ret.op = "none"
    /\ ctlAlive
    /\ ctlInbox' = Append(ctlInbox, [type |-> call.op, from |-> "host", arg |-> call.arg])
    /\ ret' = [op |-> call.op, arg |-> call.arg, val |-> None, exc |-> "", done |-> FALSE]
    /\ UNCHANGED << cfgVars, devVars, ctlFields, ctlPc, ctlAlive, rec, obsVars,
                    pipeByte, handleVars, epollVars, noteVars, stopVars, quiet, unseen >>

\* future.get() returns (or raises) in the host
HostReturn ==
    /\ ret.done
    /\ ret' = NoRet
    /\ UNCHANGED << cfgVars, devVars, ctlFields, ctlActor, rec, obsVars, pipeByte,
                    handleVars, epollVars, noteVars, stopVars, quiet, unseen >>

\* proxy.mixer_volume_to_volume(proxy.volume_to_mixer_volume(p).get()): the
\* mixer percentage the host got for p is converted back.  ret keeps p.
HostCallBack ==
    /\ ret.op = "volume_to_mixer_volume"
    /\ ret.done
    /\ ret.exc = ""
    /\ ret.val[1] \in Percent
    /\ ctlAlive
    /\ ctlInbox' = Append(ctlInbox, [type |-> "mixer_volume_to_volume", from |-> "host",
                                     arg |-> ret.val[1]])
    /\ ret' = [op |-> "round_trip", arg |-> ret.arg, val |-> None, exc |-> "",
               done |-> FALSE]
    /\ UNCHANGED << cfgVars, devVars, ctlFields, ctlPc, ctlAlive, rec, obsVars,
                    pipeByte, handleVars, epollVars, noteVars, stopVars, quiet, unseen >>

\* actor_ref.stop(): an _ActorStop envelope in the Controller's inbox
HostStop ==
    /\ ~stopRequested
    /\ ctlAlive
    /\ ctlInbox' = Append(ctlInbox, [type |-> "stop", from |-> "host", arg |-> 0])
    /\ stopRequested' = TRUE
    /\ stopAt' = IF obsPc = "poll" /\ ~wakeReady /\ devReady = "none"
                 THEN "blocked" ELSE "other"
    /\ unseen' = FALSE
    /\ UNCHANGED << cfgVars, devVars, ctlFields, ctlPc, ctlAlive, rec, obsVars,
                    pipeByte, handleVars, epollVars, ret, noteVars, quiet >>

(***************************************************************************)
(* The Controller (AlsaMixer): pykka runs on_start, then one handler per   *)
(* envelope of the inbox, then on_stop when the envelope is _ActorStop.    *)
(***************************************************************************)
\* AlsaMixer.on_start: the pipe and the Observer's thread
CtlOnStart ==
    /\ ctlPc = "on_start"
    /\ observer_pipe' = "open"
    /\ wake_fd' = "open"
    /\ obsPc' = "listen"
    /\ ctlPc' = "loop"
    /\ UNCHANGED << cfgVars, devVars, last_volume, last_mute, ctlAlive, ctlInbox, rec,
                    obsStopAsked, obsReply, pipeByte, handleVars, epollVars, ret,
                    noteVars, stopVars, quiet, unseen >>

\* the actor loop's inbox.get(): the next envelope, of the given type
Receives(type) ==
    /\ ctlPc = "loop"
    /\ ctlAlive
    /\ ActorIdle
    /\ ctlInbox # << >>
    /\ Head(ctlInbox).type = type
    /\ ctlInbox' = Tail(ctlInbox)

\* _ActorStop: pykka's _stop sets actor_stopped, then calls on_stop
CtlStop ==
    /\ Receives("stop")
    /\ ctlAlive' = FALSE
    /\ ctlPc' = "on_stop"
    /\ UNCHANGED << cfgVars, devVars, ctlFields, rec, obsVars, pipeByte, handleVars,
                    epollVars, ret, noteVars, stopVars, quiet, unseen >>

\* the property AlsaMixer.mixer, asked for by the Observer: a new
\* alsaaudio.Mixer, or None when it cannot be opened
CtlMixer ==
    /\ Receives("mixer")
    /\ obsReply' = IF devAvail THEN "mixer" ELSE "None"
    /\ handleOpen' = (devAvail \/ handleOpen)
    /\ handleEvent' = IF devAvail THEN FALSE ELSE handleEvent
    /\ UNCHANGED << cfgVars, devVars, ctlFields, ctlPc, ctlAlive, rec, obsPc,
                    obsStopAsked, wake_fd, pipeByte, epollVars, ret, noteVars,
                    stopVars, quiet, unseen >>

CtlGetVolume ==
    /\ Receives("get_volume")
    /\ ret' = [ret EXCEPT !.val = get_volume, !.done = TRUE]
    /\ UNCHANGED << cfgVars, devVars, ctlFields, ctlPc, ctlAlive, rec, obsVars,
                    pipeByte, handleVars, epollVars, noteVars, stopVars, quiet, unseen >>

CtlGetMute ==
    /\ Receives("get_mute")
    /\ ret' = [ret EXCEPT !.val = get_mute, !.done = TRUE]
    /\ UNCHANGED << cfgVars, devVars, ctlFields, ctlPc, ctlAlive, rec, obsVars,
                    pipeByte, handleVars, epollVars, noteVars, stopVars, quiet, unseen >>

\* set_volume that stores what it wrote as the last seen volume
CtlSetVolumeStoring ==
    /\ Receives("set_volume")
    /\ LET r == set_volume(Head(ctlInbox).arg)
       IN  /\ devVol' = r.vol
           /\ last_volume' = IF r.val THEN Some(Head(ctlInbox).arg) ELSE last_volume
           /\ ret' = [ret EXCEPT !.val = Some(r.val), !.exc = r.exc, !.done = TRUE]
           /\ IF r.vol # devVol
              THEN DeviceChanged /\ rec' = Dirtied
              ELSE UNCHANGED << handleEvent, devReady, quiet, unseen, rec >>
    /\ UNCHANGED << cfgVars, devAvail, devMute, last_mute, observer_pipe, ctlPc,
                    ctlAlive, obsVars, pipeByte, handleOpen, devReg, wakeReady,
                    noteVars, stopVars >>

CtlSetVolume ==
    /\ Receives("set_volume")
    /\ LET r == set_volume(Head(ctlInbox).arg)
       IN  /\ devVol' = r.vol
           /\ ret' = [ret EXCEPT !.val = Some(r.val), !.exc = r.exc, !.done = TRUE]
           /\ IF r.vol # devVol
              THEN DeviceChanged /\ rec' = Dirtied
              ELSE UNCHANGED << handleEvent, devReady, quiet, unseen, rec >>
    /\ UNCHANGED << cfgVars, devAvail, devMute, ctlFields, ctlPc, ctlAlive, obsVars,
                    pipeByte, handleOpen, devReg, wakeReady, noteVars, stopVars >>

CtlSetMute ==
    /\ Receives("set_mute")
    /\ LET r == set_mute(Head(ctlInbox).arg = 1)
       IN  /\ devMute' = r.mute
           /\ ret' = [ret EXCEPT !.val = Some(r.val), !.exc = r.exc, !.done = TRUE]
           /\ IF r.mute # devMute
              THEN DeviceChanged /\ rec' = Dirtied
              ELSE UNCHANGED << handleEvent, devReady, quiet, unseen, rec >>
    /\ UNCHANGED << cfgVars, devAvail, devVol, ctlFields, ctlPc, ctlAlive, obsVars,
                    pipeByte, handleOpen, devReg, wakeReady, noteVars, stopVars >>

\* AlsaMixer.volume_to_mixer_volume called through the proxy: the value, or
\* the ValueError of math.log10 / int() set on the caller's future
CtlVolumeToMixerVolume ==
    /\ Receives("volume_to_mixer_volume")
    /\ LET m == volume_to_mixer_volume(Head(ctlInbox).arg)
       IN  ret' = [ret EXCEPT !.val = IF m.raised THEN None ELSE Some(m.val),
                              !.exc = IF m.raised THEN "ValueError" ELSE "",
                              !.done = TRUE]
    /\ UNCHANGED << cfgVars, devVars, ctlFields, ctlPc, ctlAlive, rec, obsVars,
                    pipeByte, handleVars, epollVars, noteVars, stopVars, quiet, unseen >>

\* AlsaMixer.mixer_volume_to_volume called through the proxy
CtlMixerVolumeToVolume ==
    /\ Receives("mixer_volume_to_volume")
    /\ ret' = [ret EXCEPT !.val = Some(mixer_volume_to_volume(Head(ctlInbox).arg)),
                          !.done = TRUE]
    /\ UNCHANGED << cfgVars, devVars, ctlFields, ctlPc, ctlAlive, rec, obsVars,
                    pipeByte, handleVars, epollVars, noteVars, stopVars, quiet, unseen >>

(***************************************************************************)
(* AlsaMixer.trigger_events_for_changed_values, statement by statement.    *)
(* The device can change between any two of its statements.                *)
(***************************************************************************)
\* the envelope is taken and the first statement runs:
\*   old_volume, self._last_volume = self._last_volume, self.get_volume()
CtlReconcile ==
    /\ Receives("reconcile")
    /\ LET c == Head(ctlInbox).from
       IN  rec' = [rec EXCEPT ![c] =
                     [ pc |-> "l203", old_volume |-> last_volume, old_mute |-> None,
                       pre_volume |-> last_volume, pre_mute |-> last_mute,
                       read_volume |-> get_volume, read_mute |-> None,
                       ev_volume |-> << >>, ev_mute |-> << >>,
                       clean |-> TRUE, second |-> quiet ]]
    /\ last_volume' = get_volume
    /\ unseen' = FALSE
    /\ UNCHANGED << cfgVars, devVars, last_mute, observer_pipe, ctlPc, ctlAlive,
                    obsVars, pipeByte, handleVars, epollVars, ret, noteVars,
                    stopVars, quiet >>

\*   old_mute, self._last_mute = self._last_mute, self.get_mute()
RecL203(c) ==
    /\ rec[c].pc = "l203"
    /\ rec' = [rec EXCEPT ![c].pc = "l205", ![c].old_mute = last_mute,
                          ![c].read_mute = get_mute]
    /\ last_mute' = get_mute
    /\ UNCHANGED << cfgVars, devVars, last_volume, observer_pipe, ctlActor, obsVars,
                    pipeByte, handleVars, epollVars, ret, noteVars, stopVars,
                    quiet, unseen >>

\*   if old_volume != self._last_volume: self.trigger_volume_changed(...)
\*   if old_mute != self._last_mute: self.trigger_mute_changed(...)
RecL205(c) ==
    /\ rec[c].pc = "l205"
    /\ LET vol == Changed(rec[c].old_volume, last_volume)
           mute == Changed(rec[c].old_mute, last_mute)
       IN  /\ rec' = [rec EXCEPT ![c].pc = "ret",
                                 ![c].ev_volume = IF vol THEN <<last_volume>> ELSE << >>,
                                 ![c].ev_mute = IF mute THEN <<last_mute>> ELSE << >>]
           /\ notifiedVolume' = IF vol THEN last_volume ELSE notifiedVolume
           /\ notifiedMute' = IF mute THEN last_mute ELSE notifiedMute
    /\ UNCHANGED << cfgVars, devVars, ctlFields, ctlActor, obsVars, pipeByte,
                    handleVars, epollVars, ret, stopVars, quiet, unseen >>

\* the handler returns and the actor loop sets the caller's future
RecReturn(c) ==
    /\ rec[c].pc = "ret"
    /\ rec' = [rec EXCEPT ![c] = NoRec]
    /\ quiet' = (quiet \/ rec[c].clean)
    /\ IF c = "obs"
       THEN obsReply' = "done" /\ ret' = ret
       ELSE ret' = [ret EXCEPT !.done = TRUE] /\ obsReply' = obsReply
    /\ UNCHANGED << cfgVars, devVars, ctlFields, ctlActor, obsPc, obsStopAsked,
                    wake_fd, pipeByte, handleVars, epollVars, noteVars, stopVars,
                    unseen >>

(***************************************************************************)
(* AlsaMixer.on_stop, and the end of the actor loop after it.              *)
(***************************************************************************)
\* os.write(self._observer_pipe, b"\xFF"): BrokenPipeError when the read
\* end is closed, which ends on_stop (pykka logs it)
CtlOnStopWrite ==
    /\ ctlPc = "on_stop"
    /\ IF wake_fd = "closed"
       THEN /\ ctlPc' = "raised"
            /\ UNCHANGED << pipeByte, wakeReady >>
       ELSE /\ ctlPc' = "stop_observer"
            /\ pipeByte' = TRUE
            /\ wakeReady' = (wakeReady \/ ObsRunning)
    /\ UNCHANGED << cfgVars, devVars, ctlFields, ctlAlive, ctlInbox, rec, obsVars,
                    handleVars, devReg, devReady, ret, noteVars, stopVars, quiet,
                    unseen >>

\* self._observer.stop(block=False): on_stop goes on without the answer
CtlStopObserverNoWait ==
    /\ ctlPc = "stop_observer"
    /\ ctlPc' = "close"
    /\ obsStopAsked' = (obsPc # "stopped")
    /\ UNCHANGED << cfgVars, devVars, ctlFields, ctlAlive, ctlInbox, rec, obsPc,
                    obsReply, wake_fd, pipeByte, handleVars, epollVars, ret, noteVars,
                    stopVars, quiet, unseen >>

\* self._observer.stop(): ActorRef.stop(block=True) asks _ActorStop of a
\* live actor and waits for the answer; of a dead one it returns at once
CtlStopObserver ==
    /\ ctlPc = "stop_observer"
    /\ IF obsPc = "stopped"
       THEN ctlPc' = "close" /\ obsStopAsked' = obsStopAsked
       ELSE ctlPc' = "join" /\ obsStopAsked' = TRUE
    /\ UNCHANGED << cfgVars, devVars, ctlFields, ctlAlive, ctlInbox, rec, obsPc,
                    obsReply, wake_fd, pipeByte, handleVars, epollVars, ret, noteVars,
                    stopVars, quiet, unseen >>

\* the Observer has answered the _ActorStop
CtlJoin ==
    /\ ctlPc = "join"
    /\ obsPc = "stopped"
    /\ ctlPc' = "close"
    /\ UNCHANGED << cfgVars, devVars, ctlFields, ctlAlive, ctlInbox, rec, obsVars,
                    pipeByte, handleVars, epollVars, ret, noteVars, stopVars, quiet,
                    unseen >>

\* os.close(self._observer_pipe); on_stop returns
CtlClose ==
    /\ ctlPc = "close"
    /\ observer_pipe' = "closed"
    /\ ctlPc' = "returned"
    /\ UNCHANGED << cfgVars, devVars, last_volume, last_mute, ctlAlive, ctlInbox, rec,
                    obsVars, pipeByte, handleVars, epollVars, ret, noteVars, stopVars,
                    quiet, unseen >>

(***************************************************************************)
(* AlsaMixer.on_failure.  pykka runs it when the handler of a message that *)
(* carries no reply address has raised, after it has marked the actor      *)
(* stopped; on_stop is not run on that path.                               *)
(***************************************************************************)
\* a handler raised with nobody to hand the exception to: actor_stopped is
\* set and on_failure is called
CtlFail ==
    /\ ctlPc = "loop"
    /\ ctlAlive
    /\ ActorIdle
    /\ ctlAlive' = FALSE
    /\ ctlPc' = "on_failure"
    /\ stopAt' = IF obsPc = "poll" /\ ~wakeReady /\ devReady = "none"
                 THEN "blocked" ELSE "other"
    /\ UNCHANGED << cfgVars, devVars, ctlFields, ctlInbox, rec, obsVars, pipeByte,
                    handleVars, epollVars, ret, noteVars, stopRequested, quiet,
                    unseen >>

\* the call of on_failure.  pykka passes the exception's type, value and
\* traceback, which `def on_failure(self)` does not take: the call raises
\* TypeError and the body does not run (accepted = FALSE).  The body, for a
\* call it accepts: self._observer.stop(), which asks _ActorStop of a live
\* Observer and waits for the answer.  Nothing is written to the pipe and
\* nothing is closed on either path.
CtlOnFailure ==
    /\ ctlPc = "on_failure"
    /\ \E accepted \in BOOLEAN :
          IF ~accepted
          THEN ctlPc' = "failure_raised" /\ obsStopAsked' = obsStopAsked
          ELSE IF obsPc = "stopped"
               THEN ctlPc' = "failure_returned" /\ obsStopAsked' = obsStopAsked
               ELSE ctlPc' = "failure_join" /\ obsStopAsked' = TRUE
    /\ UNCHANGED << cfgVars, devVars, ctlFields, ctlAlive, ctlInbox, rec, obsPc,
                    obsReply, wake_fd, pipeByte, handleVars, epollVars, ret, noteVars,
                    stopVars, quiet, unseen >>

\* the Observer has answered the _ActorStop: on_failure returns
CtlFailureJoin ==
    /\ ctlPc = "failure_join"
    /\ obsPc = "stopped"
    /\ ctlPc' = "failure_returned"
    /\ UNCHANGED << cfgVars, devVars, ctlFields, ctlAlive, ctlInbox, rec, obsVars,
                    pipeByte, handleVars, epollVars, ret, noteVars, stopVars, quiet,
                    unseen >>

\* the actor loop ends: every envelope left in the inbox is answered with
\* ActorDeadError
CtlDrain ==
    /\ ctlPc \in {"returned", "raised", "failure_returned", "failure_raised"}
    /\ ctlPc' = "dead"
    /\ ctlInbox' = << >>
    /\ obsReply' = IF \E i \in 1..Len(ctlInbox) : ctlInbox[i].from = "obs"
                   THEN "dead" ELSE obsReply
    /\ ret' = IF \E i \in 1..Len(ctlInbox) : ctlInbox[i].from = "host" /\ ctlInbox[i].type # "stop"
              THEN [ret EXCEPT !.exc = "ActorDeadError", !.done = TRUE] ELSE ret
    /\ UNCHANGED << cfgVars, devVars, ctlFields, ctlAlive, rec, obsPc, obsStopAsked,
                    wake_fd, pipeByte, handleVars, epollVars, noteVars, stopVars,
                    quiet, unseen >>

(***************************************************************************)
(* The Observer (AlsaMixerObserver): its thread runs on_start, which loops *)
(* over _listen and returns only on SystemExit; pykka's actor loop, which  *)
(* reads the Observer's inbox, runs after on_start has returned.  An       *)
(* exception on_start does not catch ends the actor.                       *)
(***************************************************************************)
\* an exception leaves on_start: pykka marks the actor stopped and answers
\* what is in its inbox
ObsDies ==
    /\ obsPc' = "stopped"
    /\ EpollDropped
    /\ unseen' = FALSE

\* _create_poll, self._mixer: self._parent.mixer is an ask of the
\* Controller, ActorDeadError when it is not alive
ObsCreatePoll ==
    /\ obsPc = "listen"
    /\ IF ctlAlive
       THEN /\ ctlInbox' = Append(ctlInbox, [type |-> "mixer", from |-> "obs", arg |-> 0])
            /\ obsPc' = "wait_mixer"
            /\ UNCHANGED << epollVars, unseen >>
       ELSE /\ ObsDies
            /\ ctlInbox' = ctlInbox
    /\ obsReply' = "none"
    /\ UNCHANGED << cfgVars, devVars, ctlFields, ctlPc, ctlAlive, rec, obsStopAsked,
                    wake_fd, pipeByte, handleVars, ret, noteVars, stopVars, quiet >>

\* .get() of that future returns: a Mixer, None (MixerError, caught by
\* on_start) or ActorDeadError
ObsMixerReply ==
    /\ obsPc = "wait_mixer"
    /\ obsReply # "none"
    /\ obsReply' = "none"
    /\ CASE obsReply = "mixer" -> obsPc' = "register" /\ UNCHANGED << epollVars, unseen >>
         [] obsReply = "None" -> obsPc' = "backoff" /\ UNCHANGED << epollVars, unseen >>
         [] OTHER -> ObsDies
    /\ UNCHANGED << cfgVars, devVars, ctlFields, ctlActor, rec, obsStopAsked, wake_fd,
                    pipeByte, handleVars, ret, noteVars, stopVars, quiet >>

\* the rest of _create_poll: polldescriptors(), select.epoll(), register
\* of the wake descriptor and of the device's descriptors, any of which may
\* raise OSError.  A descriptor that is readable when it is registered is
\* reported by the first poll().
ObsRegister ==
    /\ obsPc = "register"
    /\ \E oserror \in BOOLEAN :
          IF oserror \/ ~handleOpen
          THEN /\ obsPc' = "backoff"
               /\ UNCHANGED epollVars
          ELSE /\ obsPc' = "poll"
               /\ devReg' = TRUE
               /\ wakeReady' = pipeByte
               /\ devReady' = IF ~devAvail THEN "err"
                              ELSE IF handleEvent THEN "in" ELSE "none"
    /\ UNCHANGED << cfgVars, devVars, ctlFields, ctlActor, rec, obsStopAsked, obsReply,
                    wake_fd, pipeByte, handleVars, ret, noteVars, stopVars, quiet,
                    unseen >>

\* poll.poll() returns with an event that has EPOLLHUP: _listen returns and
\* on_start calls it again
ObsPollHup ==
    /\ obsPc = "poll"
    /\ devReady = "hup"
    /\ obsPc' = "listen"
    /\ EpollDropped
    /\ unseen' = FALSE
    /\ UNCHANGED << cfgVars, devVars, ctlFields, ctlActor, rec, obsStopAsked, obsReply,
                    wake_fd, pipeByte, handleVars, ret, noteVars, stopVars, quiet >>

\* ... with an event that has EPOLLERR and not EPOLLHUP: OSError(EBADF),
\* caught by on_start, which sleeps
ObsPollErr ==
    /\ obsPc = "poll"
    /\ devReady = "err"
    /\ obsPc' = "backoff"
    /\ EpollDropped
    /\ unseen' = FALSE
    /\ UNCHANGED << cfgVars, devVars, ctlFields, ctlActor, rec, obsStopAsked, obsReply,
                    wake_fd, pipeByte, handleVars, ret, noteVars, stopVars, quiet >>

\* ... with readable descriptors only: changes = True.  The set is
\* edge-triggered, so what was reported is not reported again.
ObsPollChanges ==
    /\ obsPc = "poll"
    /\ devReady \in {"none", "in"}
    /\ wakeReady \/ devReady = "in"
    /\ obsPc' = "alive_check"
    /\ wakeReady' = FALSE
    /\ devReady' = "none"
    /\ UNCHANGED << cfgVars, devVars, ctlFields, ctlActor, rec, obsStopAsked, obsReply,
                    wake_fd, pipeByte, handleVars, devReg, ret, noteVars, stopVars,
                    quiet, unseen >>

\* if not self._parent.actor_ref.is_alive(): close the wake descriptor and
\* raise SystemExit, on which on_start returns
ObsAliveCheck ==
    /\ obsPc = "alive_check"
    /\ IF ctlAlive
       THEN /\ obsPc' = "call_parent"
            /\ UNCHANGED << wake_fd, epollVars, unseen >>
       ELSE /\ obsPc' = "actor_loop"
            /\ wake_fd' = "closed"
            /\ EpollDropped
            /\ unseen' = FALSE
    /\ UNCHANGED << cfgVars, devVars, ctlFields, ctlActor, rec, obsStopAsked, obsReply,
                    pipeByte, handleVars, ret, noteVars, stopVars, quiet >>

\* _call_parent: the ask of trigger_events_for_changed_values
ObsCallParent ==
    /\ obsPc = "call_parent"
    /\ IF ctlAlive
       THEN /\ ctlInbox' = Append(ctlInbox, [type |-> "reconcile", from |-> "obs", arg |-> 0])
            /\ obsPc' = "wait_rec"
            /\ UNCHANGED << epollVars, unseen >>
       ELSE /\ ObsDies
            /\ ctlInbox' = ctlInbox
    /\ obsReply' = "none"
    /\ UNCHANGED << cfgVars, devVars, ctlFields, ctlPc, ctlAlive, rec, obsStopAsked,
                    wake_fd, pipeByte, handleVars, ret, noteVars, stopVars, quiet >>

\* .get() of that future returns, or raises ActorDeadError
ObsRecReply ==
    /\ obsPc = "wait_rec"
    /\ obsReply # "none"
    /\ obsReply' = "none"
    /\ IF obsReply = "done"
       THEN obsPc' = "poll" /\ UNCHANGED << epollVars, unseen >>
       ELSE ObsDies
    /\ UNCHANGED << cfgVars, devVars, ctlFields, ctlActor, rec, obsStopAsked, wake_fd,
                    pipeByte, handleVars, ret, noteVars, stopVars, quiet >>

\* time.sleep(random.uniform(5, 10)) is over: the while loop calls _listen
ObsBackoff ==
    /\ obsPc = "backoff"
    /\ obsPc' = "listen"
    /\ UNCHANGED << cfgVars, devVars, ctlFields, ctlActor, rec, obsStopAsked, obsReply,
                    wake_fd, pipeByte, handleVars, epollVars, ret, noteVars, stopVars,
                    quiet, unseen >>

\* on_start has returned: the actor loop takes the _ActorStop and answers it
ObsActorStop ==
    /\ obsPc = "actor_loop"
    /\ obsStopAsked
    /\ obsPc' = "stopped"
    /\ UNCHANGED << cfgVars, devVars, ctlFields, ctlActor, rec, obsStopAsked, obsReply,
                    wake_fd, pipeByte, handleVars, epollVars, ret, noteVars, stopVars,
                    quiet, unseen >>

(***************************************************************************)
(* The device and the Python runtime.                                      *)
(***************************************************************************)
\* another process sets one channel's volume
EnvSetVolume(i, level) ==
    /\ devAvail
    /\ i \in Channels(devVol)
    /\ devVol[i] # level
    /\ devVol' = [devVol EXCEPT ![i] = level]
    /\ DeviceChanged
    /\ rec' = Dirtied
    /\ UNCHANGED << cfgVars, devAvail, devMute, ctlFields, ctlActor, obsVars, pipeByte,
                    handleOpen, devReg, wakeReady, ret, noteVars, stopVars >>

\* another process flips one channel's mute switch
EnvSetMute(i) ==
    /\ devAvail
    /\ i \in Channels(devMute)
    /\ devMute' = [devMute EXCEPT ![i] = ~devMute[i]]
    /\ DeviceChanged
    /\ rec' = Dirtied
    /\ UNCHANGED << cfgVars, devAvail, devVol, ctlFields, ctlActor, obsVars, pipeByte,
                    handleOpen, devReg, wakeReady, ret, noteVars, stopVars >>

\* the sound card goes away: descriptors registered on it report an error
\* or a hang-up
EnvUnplug ==
    /\ devAvail
    /\ devAvail' = FALSE
    /\ \E event \in {"err", "hup"} :
          devReady' = IF devReg THEN event ELSE devReady
    /\ quiet' = FALSE
    /\ rec' = Dirtied
    /\ UNCHANGED << cfgVars, devVol, devMute, ctlFields, ctlActor, obsVars, pipeByte,
                    handleVars, devReg, wakeReady, ret, noteVars, stopVars, unseen >>

\* the sound card is back
EnvReplug ==
    /\ ~devAvail
    /\ devAvail' = TRUE
    /\ quiet' = FALSE
    /\ rec' = Dirtied
    /\ UNCHANGED << cfgVars, devVol, devMute, ctlFields, ctlActor, obsVars, pipeByte,
                    handleVars, epollVars, ret, noteVars, stopVars, unseen >>

\* The Mixer object the Observer's descriptors came from is referenced by
\* nothing once `fds = self._mixer.polldescriptors()` has run: the runtime
\* frees it, which closes its descriptors, and a closed descriptor leaves
\* every epoll set.
MixerCollected ==
    /\ handleOpen
    /\ obsPc \notin {"wait_mixer", "register"}
    /\ handleOpen' = FALSE
    /\ handleEvent' = FALSE
    /\ devReg' = FALSE
    /\ devReady' = "none"
    /\ UNCHANGED << cfgVars, devVars, ctlFields, ctlActor, rec, obsVars, pipeByte,
                    wakeReady, ret, noteVars, stopVars, quiet, unseen >>

\* The two actors from construction to the end of both: the host's writes,
\* reconciles and stop, the Observer, the device.
Init == Boot(LifeCalibrations, {1}, LifeLevels, FALSE)

Next ==
    \/ \E call \in LifeCalls : HostCall(call)
    \/ HostReturn
    \/ HostStop
    \/ CtlOnStart
    \/ CtlStop
    \/ CtlMixer
    \/ CtlGetVolume
    \/ CtlGetMute
    \/ CtlSetVolume
    \/ CtlSetMute
    \/ CtlReconcile
    \/ \E c \in Callers : RecL203(c)
    \/ \E c \in Callers : RecL205(c)
    \/ \E c \in Callers : RecReturn(c)
    \/ CtlOnStopWrite
    \/ CtlStopObserver
    \/ CtlJoin
    \/ CtlClose
    \/ CtlDrain
    \/ ObsCreatePoll
    \/ ObsMixerReply
    \/ ObsRegister
    \/ ObsPollHup
    \/ ObsPollErr
    \/ ObsPollChanges
    \/ ObsAliveCheck
    \/ ObsCallParent
    \/ ObsRecReply
    \/ ObsBackoff
    \/ ObsActorStop
    \/ \E level \in LifeLevels : EnvSetVolume(1, level)
    \/ EnvSetMute(1)
    \/ EnvUnplug
    \/ EnvReplug
    \/ MixerCollected

Spec == Init /\ [][Next]_vars

\* The Controller's operations on every device state, called by the host
\* while the device changes under them; the Observer's thread has not run.
InitOps == Boot(Calibrations, 0..MaxChannels, MixerLevels, TRUE)

NextOps ==
    \/ \E call \in HostCalls : HostCall(call)
    \/ HostReturn
    \/ CtlGetVolume
    \/ CtlGetMute
    \/ CtlSetVolume
    \/ CtlSetMute
    \/ CtlReconcile
    \/ RecL203("host")
    \/ RecL205("host")
    \/ RecReturn("host")
    \/ \E i \in 1..MaxChannels, level \in MixerLevels : EnvSetVolume(i, level)
    \/ \E i \in 1..MaxChannels : EnvSetMute(i)
    \/ EnvUnplug
    \/ EnvReplug

SpecOps == InitOps /\ [][NextOps]_vars

\* The two actors from construction to a failure of the Controller: the
\* Observer and its reconciles, the device, and no stop() by the host.
NextFail ==
    \/ CtlOnStart
    \/ CtlMixer
    \/ CtlReconcile
    \/ RecL203("obs")
    \/ RecL205("obs")
    \/ RecReturn("obs")
    \/ CtlFail
    \/ CtlOnFailure
    \/ CtlFailureJoin
    \/ CtlDrain
    \/ ObsCreatePoll
    \/ ObsMixerReply
    \/ ObsRegister
    \/ ObsPollHup
    \/ ObsPollErr
    \/ ObsPollChanges
    \/ ObsAliveCheck
    \/ ObsCallParent
    \/ ObsRecReply
    \/ ObsBackoff
    \/ ObsActorStop
    \/ \E level \in LifeLevels : EnvSetVolume(1, level)
    \/ EnvSetMute(1)
    \/ EnvUnplug
    \/ EnvReplug
    \/ MixerCollected

SpecFail == Init /\ [][NextFail]_vars

\* The two conversions on every percentage under every configuration of
\* MapCalibrations, and the one after the other.
InitMap == Boot(MapCalibrations, {1}, {100}, TRUE)

NextMap ==
    \/ \E call \in MapCalls : HostCall(call)
    \/ HostCallBack
    \/ HostReturn
    \/ CtlVolumeToMixerVolume
    \/ CtlMixerVolumeToVolume

SpecMap == InitMap /\ [][NextMap]_vars

(***************************************************************************)
(* Properties.                                                             *)
(***************************************************************************)
\* two optional values differ: None against a value, or two unequal values
Differs(a, b) ==
    \/ a = None /\ b # None
    \/ a # None /\ b = None
    \/ a # None /\ b # None /\ a[1] # b[1]

\* what one reconcile must emit for a field, given the Observed State it
\* started from and the value it read
Expected(pre, read) == IF Differs(pre, read) THEN <<read>> ELSE << >>

\* C1: one reconcile emits onVolumeChanged(new) exactly once if the volume
\* it read differs from the Observed State it started from and not at all
\* otherwise, and the same, independently, for mute; None to a value, a
\* value to None and a value to another value are changes.
C1_ReconcileEmitsPerChange ==
    \A c \in Callers :
        rec[c].pc = "ret" =>
            /\ rec[c].ev_volume = Expected(rec[c].pre_volume, rec[c].read_volume)
            /\ rec[c].ev_mute = Expected(rec[c].pre_mute, rec[c].read_mute)

\* the first reconcile after construction read a concrete volume and mute
\* and has emitted both
C1_Witness ==
    /\ rec["host"].pc = "ret"
    /\ rec["host"].pre_volume = None /\ rec["host"].pre_mute = None
    /\ notifiedVolume # None /\ notifiedMute # None
    /\ rec["host"].ev_volume = <<rec["host"].read_volume>>
    /\ rec["host"].ev_mute = <<rec["host"].read_mute>>

\* C2: a reconcile that follows a complete reconcile, with the device
\* (volumes, mutes, availability) unchanged from before the first one's
\* start to the second one's end, emits nothing and leaves the Observed
\* State as it found it.
C2_SecondReconcileSilent ==
    \A c \in Callers :
        (rec[c].pc = "ret" /\ rec[c].clean /\ rec[c].second) =>
            /\ rec[c].ev_volume = << >>
            /\ rec[c].ev_mute = << >>
            /\ last_volume = rec[c].pre_volume
            /\ last_mute = rec[c].pre_mute

\* such a second reconcile has run, both on a readable and on an
\* indeterminate device
C2_Witness ==
    /\ rec["host"].pc = "ret" /\ rec["host"].clean /\ rec["host"].second
    /\ rec["host"].read_volume = None
    /\ rec["host"].read_mute # None

C4_NoStopDeadlock == ~(ctlPc = "join" /\ ObsAwaitsReply)

\* the effect one reconcile has when it runs alone: the Observed State is
\* what it read, and it emitted what its reading changed
RunsAlone(c) ==
    /\ last_volume = rec[c].read_volume
    /\ last_mute = rec[c].read_mute
    /\ rec[c].ev_volume = Expected(rec[c].pre_volume, rec[c].read_volume)
    /\ rec[c].ev_mute = Expected(rec[c].pre_mute, rec[c].read_mute)

\* C5: reconciles are mutually exclusive: at most one is between its first
\* and its last statement, and each one ends with the Observed State and
\* the notifications of a run of its own, so that overlapping triggers give
\* what some sequential execution of them gives.
C5_ReconcilesSerialized ==
    /\ Cardinality({c \in Callers : rec[c].pc # "none"}) <= 1
    /\ \A c \in Callers : rec[c].pc = "ret" => RunsAlone(c)

\* the Observer's reconcile is at its end while the host's waits in the inbox
C5_Witness ==
    /\ rec["obs"].pc = "ret"
    /\ rec["obs"].ev_volume # << >>
    /\ \E i \in 1..Len(ctlInbox) :
          ctlInbox[i].type = "reconcile" /\ ctlInbox[i].from = "host"

\* a change made while the Observer is running, with no stop requested, has
\* left the device showing the host another value than the Observed State,
\* and no reconcile has started since
Stale ==
    /\ ObsRunning
    /\ ~stopRequested
    /\ unseen
    /\ << get_volume, get_mute >> # << last_volume, last_mute >>

\* C6: such a change is not missed: its event is pending in the Observer's
\* epoll set, or the Observer is on its way from a wait to a reconcile that
\* has not read the device yet.
C6_ChangeReachesReconcile ==
    Stale =>
        \/ devReady # "none"
        \/ obsPc \in {"alive_check", "call_parent"}
        \/ obsPc = "wait_rec" /\ obsReply = "none" /\ rec["obs"].pc = "none"

\* C7: with no stop requested, the inner loop's exit on a device
\* descriptor's error condition and a failure of setup are followed by the
\* backoff; setup is re-run only out of the backoff; and the Observer stops
\* only after stop() was requested.
C7_RetryOnlyAfterBackoff ==
    [][ /\ (obsPc = "poll" /\ obsPc' \notin {"poll", "alive_check"} /\ ~stopRequested)
            => obsPc' = "backoff"
        /\ (obsPc \in {"wait_mixer", "register"} /\ ~stopRequested)
            => obsPc' \in {obsPc, "register", "poll", "backoff"}
        /\ (obsPc' = "listen" /\ obsPc # "listen") => obsPc \in {"none", "backoff"}
        /\ (obsPc' = "stopped") => stopRequested ]_vars

\* C8: set_volume and set_mute return False and raise nothing when the
\* device cannot be opened or refuses the write, and then change neither the
\* device nor the Observed State; they return True when the write is made.
C8_SetReturnsFalseOnFailure ==
    [][ /\ CtlSetVolume =>
             LET m == volume_to_mixer_volume(Head(ctlInbox).arg)
                 refused == ~devAvail \/ (~m.raised /\ m.val \notin 0..100)
                 written == devAvail /\ ~m.raised /\ m.val \in 0..100
             IN  /\ refused => /\ ret'.val = Some(FALSE) /\ ret'.exc = ""
                               /\ devVars' = devVars
                               /\ << last_volume, last_mute >>' = << last_volume, last_mute >>
                 /\ written => /\ ret'.val = Some(TRUE) /\ ret'.exc = ""
                               /\ \A i \in Channels(devVol) : devVol'[i] = m.val
        /\ CtlSetMute =>
             /\ ~devAvail => /\ ret'.val = Some(FALSE) /\ ret'.exc = ""
                             /\ devVars' = devVars
                             /\ << last_volume, last_mute >>' = << last_volume, last_mute >>
             /\ devAvail => /\ ret'.val = Some(TRUE) /\ ret'.exc = ""
                            /\ \A i \in Channels(devMute) :
                                  devMute'[i] = (Head(ctlInbox).arg = 1) ]_vars

\* set_volume has returned False on an absent device, with the Observed
\* State holding a value
C8_Witness ==
    /\ ret.op = "set_volume" /\ ret.done /\ ret.val = Some(FALSE)
    /\ ~devAvail
    /\ last_volume # None

\* C9: get_volume returns None when the device is unavailable, reports no
\* channel, or reports channels that are not all equal; otherwise the host
\* volume of the common value; it raises nothing.
C9_GetVolume ==
    [][ CtlGetVolume =>
          /\ ret'.exc = ""
          /\ ret'.val =
               IF \/ ~devAvail
                  \/ Len(devVol) = 0
                  \/ \E i, j \in Channels(devVol) : devVol[i] # devVol[j]
               THEN None
               ELSE Some(mixer_volume_to_volume(devVol[1])) ]_vars

\* get_volume has returned None for two channels that disagree
C9_Witness ==
    /\ ret.op = "get_volume" /\ ret.done /\ ret.val = None
    /\ devAvail /\ Len(devVol) = 2 /\ devVol[1] # devVol[2]

\* C10: get_mute returns True if all channels are muted, else False if none
\* is, else (mixed) None; None when the device is unavailable; it raises
\* nothing.
C10_GetMute ==
    [][ CtlGetMute =>
          /\ ret'.exc = ""
          /\ ret'.val =
               IF ~devAvail THEN None
               ELSE IF \A i \in Channels(devMute) : devMute[i] = TRUE THEN Some(TRUE)
               ELSE IF \A i \in Channels(devMute) : devMute[i] = FALSE THEN Some(FALSE)
               ELSE None ]_vars

\* get_mute has returned None for two channels of which one is muted
C10_Witness ==
    /\ ret.op = "get_mute" /\ ret.done /\ ret.val = None
    /\ devAvail /\ Len(devMute) = 2 /\ devMute[1] # devMute[2]

\* the configuration is the default range 0..100
DefaultRange == min_volume = 0 /\ max_volume = 100

\* C11: with min_volume = 0 and max_volume = 100, for every host percentage
\* p and every scale, volume_to_mixer_volume(p) is defined and
\* mixer_volume_to_volume of it lies within p - 1 .. p + 1.
C11_RoundTripWithinOne ==
    DefaultRange =>
        /\ (ret.op = "volume_to_mixer_volume" /\ ret.done) =>
               (ret.exc = "" /\ ret.val # None /\ ret.val[1] \in Percent)
        /\ (ret.op = "round_trip" /\ ret.done) =>
               ret.val[1] \in (ret.arg - 1)..(ret.arg + 1)

\* C12: mixer_volume_to_volume of a mixer percentage is in 0..100, for
\* every scale and every range with max_volume > min_volume.
C12_HostVolumeInRange ==
    (ret.op = "mixer_volume_to_volume" /\ ret.done) => ret.val[1] \in Percent

\* C13: for a fixed range and scale, mixer_volume_to_volume is monotonically
\* non-decreasing: no mixer percentage above the one just converted has a
\* smaller result.
C13_MixerVolumeToVolumeMonotone ==
    (ret.op = "mixer_volume_to_volume" /\ ret.done) =>
        \A b \in Percent :
            ret.arg <= b => ret.val[1] <= mixer_volume_to_volume(b)

\* the cubic curve converted 70 under the range 0..98, where the double
\* quotient falls short of 35
C13_Witness ==
    /\ ret.op = "mixer_volume_to_volume" /\ ret.done
    /\ volume_scale = "cubic" /\ min_volume = 0 /\ max_volume = 98
    /\ ret.arg = 70 /\ ret.val = Some(34)

\* C14: the Observed State starts as (None, None), and a step changes it
\* only if it is a statement of trigger_events_for_changed_values: none of
\* get_volume, get_mute, set_volume, set_mute, on_start and on_stop does;
\* and the host is notified only by trigger_events_for_changed_values.
C14_OnlyReconcileChangesObservedState ==
    /\ last_volume = None /\ last_mute = None
    /\ [][ /\ << last_volume, last_mute >>' # << last_volume, last_mute >>
                => (CtlReconcile \/ \E c \in Callers : RecL203(c))
           /\ noteVars' # noteVars => \E c \in Callers : RecL205(c)
           /\ ( CtlGetVolume \/ CtlGetMute \/ CtlSetVolume \/ CtlSetMute
                \/ CtlOnStart \/ CtlStop \/ CtlOnStopWrite \/ CtlStopObserver
                \/ CtlJoin \/ CtlClose )
                => UNCHANGED << last_volume, last_mute, noteVars >> ]_vars

\* set_volume has written another volume than the one last seen and has
\* returned True, and the Observed State still holds the one last seen
C14_Witness ==
    /\ ret.op = "set_volume" /\ ret.done /\ ret.val = Some(TRUE)
    /\ last_volume # None
    /\ devVol[1] = ret.arg
    /\ last_volume # Some(ret.arg)
    /\ notifiedVolume = last_volume

\* C15: once stop() has returned (on_stop has ended and the actor loop has
\* answered what was left in the inbox), both ends of the wake pipe are
\* closed: the write end the Controller holds and the read end the Observer
\* holds.
C15_PipeClosedAfterStop ==
    ctlPc = "dead" => (observer_pipe = "closed" /\ wake_fd = "closed")

\* C16: whenever the Observer is running (in or between the poll() calls of
\* one _listen), the Mixer object its registered descriptors came from is
\* still open; and that object is closed only in a step that ends the
\* Observer's _listen, never in one that leaves it running.
C16_HandleOpenWhileRunning ==
    /\ [](ObsRunning => handleOpen)
    /\ [][(handleOpen /\ ~handleOpen') => ~ObsRunning']_vars

\* C17: whenever no reconcile is in progress, so after every completed one,
\* what the host was last notified of for the volume (None if it never was)
\* is the stored _last_volume, and the same for mute.
C17_HostViewIsObservedState ==
    ActorIdle => (notifiedVolume = last_volume /\ notifiedMute = last_mute)

\* a reconcile has completed and has left a volume and a mute that the
\* host was told of, and the device has lost its control since
C17_Witness ==
    /\ ret.op = "reconcile" /\ ret.done /\ ActorIdle
    /\ last_volume # None /\ last_mute # None
    /\ notifiedVolume = last_volume /\ notifiedMute = last_mute
    /\ ~devAvail

\* the control is there and reports no channel
NoChannels == devAvail /\ Len(devVol) = 0 /\ Len(devMute) = 0

\* C19: on an available device that reports an empty list of channels
\* get_mute returns True and get_volume returns None, and a reconcile that
\* starts from the Observed State (None, None) on such a device emits
\* onMuteChanged(True) and no volume notification.
C19_ZeroChannelMute ==
    /\ [][ /\ (CtlGetMute /\ NoChannels) => (ret'.val = Some(TRUE) /\ ret'.exc = "")
           /\ (CtlGetVolume /\ NoChannels) => (ret'.val = None /\ ret'.exc = "") ]_vars
    /\ [](\A c \in Callers :
            ( /\ rec[c].pc = "ret" /\ rec[c].clean /\ NoChannels
              /\ rec[c].pre_volume = None /\ rec[c].pre_mute = None )
            => (rec[c].ev_mute = <<Some(TRUE)>> /\ rec[c].ev_volume = << >>))

\* the first reconcile has run on a device without channels and the host
\* has been told mute = True and nothing of the volume
C19_Witness ==
    /\ rec["host"].pc = "ret" /\ rec["host"].clean /\ NoChannels
    /\ rec["host"].pre_volume = None /\ rec["host"].pre_mute = None
    /\ notifiedMute = Some(TRUE) /\ notifiedVolume = None
    /\ last_mute = Some(TRUE) /\ last_volume = None

\* C20: set_volume(p) ends by returning True or False and never by raising;
\* where the conversion of p is undefined it returns False and writes
\* nothing to the device.
C20_SetVolumeNeverRaises ==
    [][ CtlSetVolume =>
          /\ ret'.exc = ""
          /\ ret'.val \in {Some(TRUE), Some(FALSE)}
          /\ volume_to_mixer_volume(Head(ctlInbox).arg).raised =>
                 (ret'.val = Some(FALSE) /\ devVol' = devVol) ]_vars

\* on_failure has ended, by returning or by raising
FailureEnded == ctlPc \in {"failure_returned", "failure_raised", "dead"}

\* C18: when the Controller fails while the Observer is blocked in poll()
\* with nothing pending, on_failure ends with the Observer stopped and both
\* ends of the wake pipe closed, as on_stop does, and it does not wait for
\* the Observer with nothing there to wake it.
C18_FailureStopsObserver ==
    stopAt = "blocked" =>
        /\ FailureEnded =>
              (obsPc = "stopped" /\ observer_pipe = "closed" /\ wake_fd = "closed")
        /\ ~( /\ ctlPc = "failure_join"
              /\ obsPc = "poll" /\ ~wakeReady /\ devReady = "none" )

====
